---- MODULE Spec2Model ----
(***************************************************************************)
(* Model of healthcheck's RemoteExecutor (src/remote_executor.py): the     *)
(* constructor, the command builder _build_cmd, the per-target locks, the  *)
(* result cache, the dispatcher operations exec_uni / exec_multi /         *)
(* exec_broad, check_connection and get_addrs.                             *)
(*                                                                         *)
(* Python threads interleave between bytecodes, so every read or write of  *)
(* the shared dictionaries (self.locks, self.cache) and of self.connected  *)
(* is a step of its own; statements that touch only locals are merged      *)
(* into the step before them.                                              *)
(***************************************************************************)
EXTENDS Naturals, Integers, Sequences, FiniteSets, TLC

\* ------------------------------------------------------------------ bounds
\* Caller threads that use the executor concurrently.
NCallers == 2
\* Longest list of (command, target) pairs handed to exec_multi.
MaxBatch == 2
\* _exec invocations in one behaviour.
MaxCalls == 2

\* ------------------------------------------------------------ text values
\* Strings the code splits or strips are sequences of one-character strings.
None == <<"<None>">>

RECURSIVE Strip(_)
\* str.strip(): whitespace removed at both ends.
Strip(s) ==
    IF s = <<>> THEN s
    ELSE IF Head(s) = " " THEN Strip(Tail(s))
    ELSE IF s[Len(s)] = " " THEN Strip(SubSeq(s, 1, Len(s) - 1))
    ELSE s

RECURSIVE SplitAcc(_, _, _)
SplitAcc(s, sep, cur) ==
    IF s = <<>> THEN <<cur>>
    ELSE IF Head(s) = sep THEN <<cur>> \o SplitAcc(Tail(s), sep, <<>>)
    ELSE SplitAcc(Tail(s), sep, Append(cur, Head(s)))

\* str.split(sep): the pieces between separators, empty pieces kept.
Split(s, sep) == SplitAcc(s, sep, <<>>)

\* list(map(lambda x: x.strip(), hosts.split(',')))
ParseTargets(hosts) ==
    LET parts == Split(hosts, ",")
    IN  [i \in 1..Len(parts) |-> Strip(parts[i])]

RECURSIVE SplitWsAcc(_, _)
SplitWsAcc(s, cur) ==
    LET piece == IF cur = <<>> THEN <<>> ELSE <<cur>>
    IN  IF s = <<>> THEN piece
        ELSE IF Head(s) = " " THEN piece \o SplitWsAcc(Tail(s), <<>>)
        ELSE SplitWsAcc(Tail(s), Append(cur, Head(s)))

\* str.split() without a separator: the pieces between runs of whitespace,
\* no empty piece, none at all for a blank string.
SplitWs(s) == SplitWsAcc(s, <<>>)

\* "x.split(' ')[0]": the piece before the first blank, empty when the string
\* starts with one.
FirstPiece(s) == Split(s, " ")[1]

\* "future.result().split()[0]" (line 99), for a string that is not blank.
FirstToken(s) == SplitWs(s)[1]

\* ------------------------------------------------------------ construction
Sections == {"ssh", "docker", "k8s"}

\* The comma-separated target lists a configuration section may hold.
HostStrings ==
    { <<"a">>, <<"a", ",", "b">>, <<"a", ",", " ", "b">>, <<" ", "a", ",", "a">> }

Users == { None, <<"u">> }
Keys == { None, <<"/", "k">> }
Namespaces == { <<"n">> }

Absent == [present |-> FALSE, hosts |-> <<>>, user |-> None, key |-> None,
           namespace |-> None]

SectionValues(s) ==
    {Absent} \cup
    IF s = "ssh"
    THEN { [present |-> TRUE, hosts |-> h, user |-> u, key |-> k, namespace |-> None]
             : h \in HostStrings, u \in Users, k \in Keys }
    ELSE IF s = "docker"
    THEN { [present |-> TRUE, hosts |-> h, user |-> None, key |-> None,
            namespace |-> None] : h \in HostStrings }
    ELSE { [present |-> TRUE, hosts |-> h, user |-> None, key |-> None,
            namespace |-> n] : h \in HostStrings, n \in Namespaces }

\* Every parsed configuration: each backend section present or not.
Configs ==
    { cfg \in [Sections -> UNION { SectionValues(s) : s \in Sections }] :
        \A s \in Sections : cfg[s] \in SectionValues(s) }

\* RemoteExecutor.__init__: the first section found, in the order ssh, docker,
\* k8s, decides the mode; with none of them ValueError is raised.
Constructor(cfg) ==
    IF cfg["ssh"].present
    THEN [status |-> "ok", mode |-> "ssh",
          targets |-> ParseTargets(cfg["ssh"].hosts),
          ssh_user |-> cfg["ssh"].user, ssh_key |-> cfg["ssh"].key,
          k8s_ns |-> None]
    ELSE IF cfg["docker"].present
    THEN [status |-> "ok", mode |-> "docker",
          targets |-> ParseTargets(cfg["docker"].hosts),
          ssh_user |-> None, ssh_key |-> None, k8s_ns |-> None]
    ELSE IF cfg["k8s"].present
    THEN [status |-> "ok", mode |-> "k8s",
          targets |-> ParseTargets(cfg["k8s"].hosts),
          ssh_user |-> None, ssh_key |-> None,
          k8s_ns |-> cfg["k8s"].namespace]
    ELSE [status |-> "error", mode |-> "none", targets |-> <<>>,
          ssh_user |-> None, ssh_key |-> None, k8s_ns |-> None]

\* --------------------------------------------------------------- the state
VARIABLES
    config,      \* the parsed configuration handed to the constructor
    constructed, \* "new" before __init__, then "ok", or "error" (ValueError)
    mode, targets, ssh_user, ssh_key, k8s_ns,   \* set by __init__
    locks,       \* self.locks: target -> the lock object stored for it
    cache,       \* self.cache: target -> (command -> response)
    connected,   \* self.connected: "None", "True" or "False"
    addrs,       \* self.addrs: target -> internal address, None when not set
    built,       \* the last direct call of _build_cmd: arguments and result
    frame,       \* the activations of _exec, one per (caller, task)
    op,          \* each caller's current operation
    calls        \* _exec invocations reserved so far

vars == <<config, constructed, mode, targets, ssh_user, ssh_key, k8s_ns,
          locks, cache, connected, addrs, built, frame, op, calls>>

rexVars == <<config, constructed, mode, targets, ssh_user, ssh_key, k8s_ns>>

Range(seq) == { seq[i] : i \in 1..Len(seq) }

\* The logical commands callers issue: the probe of check_connection and the
\* address discovery of get_addrs.
Cmds == { "pwd", "hostname -I" }

\* What exec_cmd may return for a command that succeeds.
Outputs == { <<"x">>, <<"y", " ", "x">> }

\* The configuration the executor of the concurrent runs is built from.
MainConfig ==
    [s \in Sections |->
        IF s = "ssh"
        THEN [present |-> TRUE, hosts |-> <<"a", ",", "b">>, user |-> <<"u">>,
              key |-> <<"/", "k">>, namespace |-> None]
        ELSE Absent]

Callers == 1..NCallers

MaxSlots ==
    LET n == Len(ParseTargets(MainConfig["ssh"].hosts))
    IN  IF n > MaxBatch THEN n ELSE MaxBatch

\* An activation of _exec: caller c's own call (slot 1) or the i-th task of
\* the thread pool of its exec_multi / exec_broad.
Frames == Callers \X (1..MaxSlots)

NoLock == <<0, 0>>

IdleFrame == [pc |-> "idle", cmd |-> "", target |-> None, su |-> FALSE,
              lk |-> NoLock, rsp |-> None, ran |-> FALSE]

NewFrame(cmd, target, su) ==
    [pc |-> "lookup", cmd |-> cmd, target |-> target, su |-> su,
     lk |-> NoLock, rsp |-> None, ran |-> FALSE]

IdleOp == [kind |-> "idle", pc |-> "idle", futures |-> <<>>, i |-> 0,
           probes |-> <<>>]

EmptyDict == [c \in Cmds |-> None]

\* -------------------------------------------------------------- _build_cmd
\* A command line is a text: a sequence of atoms, each a blank, a quote, an
\* "@" or a word that no operation of the code looks into.
CmdText(cmd) == IF cmd = "pwd" THEN <<"pwd">> ELSE <<"hostname", " ", "-I">>

\* SSH_OPTS, lines 7-12.
SSH_OPTS ==
    << <<"-o">>, <<"ControlMaster=auto">>,
       <<"-o">>, <<"ControlPersist=60s">>,
       <<"-o">>, <<"StrictHostKeyChecking=no">>,
       <<"-o">>, <<"UserKnownHostsFile=/dev/null">>,
       <<"-o">>, <<"IdentitiesOnly=yes">>,
       <<"-o">>, <<"AddKeysToAgent=no">> >>

\* self.k8s_container, line 29.
K8sContainer == <<"redis-enterprise-node">>

\* bool(x) of a configured string: None and the empty string are false.
Truthy(x) == x # None /\ x # <<>>

RECURSIVE Join(_)
\* ' '.join(parts)
Join(parts) ==
    IF parts = <<>> THEN <<>>
    ELSE IF Len(parts) = 1 THEN parts[1]
    ELSE parts[1] \o <<" ">> \o Join(Tail(parts))

\* Lines 207-211.
DockerParts(t, cmd, su) ==
    << <<"docker">>, <<"exec">> >>
    \o (IF su THEN << <<"--user">>, <<"root">> >> ELSE <<>>)
    \o <<t, cmd>>

\* A pod exec that honours _su by prefixing the command.
K8sPartsElevated(t, cmd, su) ==
    << <<"kubectl">>, <<"exec">>, t, <<"--container">>, K8sContainer,
       <<"--namespace">>, k8s_ns, <<"--">>,
       IF su THEN <<"sudo", " ">> \o cmd ELSE cmd >>

\* Lines 212-216.
K8sParts(t, cmd, su) ==
    << <<"kubectl">>, <<"exec">>, t, <<"--container">>, K8sContainer,
       <<"--namespace">>, k8s_ns, <<"--">>, cmd >>

\* An ssh command line that never names the user.
SshPartsBareHost(t, cmd, su) ==
    << <<"ssh">> >> \o SSH_OPTS
    \o (IF Truthy(ssh_key) THEN << <<"-i", " ">> \o ssh_key >> ELSE <<>>)
    \o <<t>>
    \o << <<"-C", " ", "'">> \o (IF su THEN <<"sudo", " ">> \o cmd ELSE cmd)
           \o <<"'", " ">> >>

\* Lines 217-228.
SshParts(t, cmd, su) ==
    << <<"ssh">> >> \o SSH_OPTS
    \o (IF Truthy(ssh_key) THEN << <<"-i", " ">> \o ssh_key >> ELSE <<>>)
    \o (IF Truthy(ssh_user) THEN << ssh_user \o <<"@">> \o t >> ELSE <<t>>)
    \o << <<"-C", " ", "'">> \o (IF su THEN <<"sudo", " ">> \o cmd ELSE cmd)
           \o <<"'", " ">> >>

\* _build_cmd(_target, _cmd, _su), for the three modes __init__ can set.
BuildCmd(t, cmd, su) ==
    IF mode = "docker" THEN Join(DockerParts(t, cmd, su))
    ELSE IF mode = "k8s" THEN Join(K8sParts(t, cmd, su))
    ELSE Join(SshParts(t, cmd, su))

NoBuilt == [target |-> None, cmd |-> "", su |-> FALSE, line |-> None]

\* A call self._build_cmd(t, cmd, su) on a constructed executor.
BuildCmdCall(t, cmd, su) ==
    /\ constructed = "ok"
    /\ built' = [target |-> t, cmd |-> cmd, su |-> su,
                 line |-> BuildCmd(t, CmdText(cmd), su)]
    /\ UNCHANGED <<rexVars, addrs, locks, cache, connected, frame, op, calls>>

\* ------------------------------------------------------------------- _exec
\* A lookup that never finds an entry: _exec without its memoization.
InCacheNever(t, c) == FALSE

\* "_target in self.cache and _cmd in self.cache[_target]"
InCache(t, c) == cache[t].present /\ cache[t].d[c] # None

\* One lock shared by every target instead of one per target.
HeldAnyTarget(t, l) == \E g \in Frames : frame[g].pc = "run"

\* A lock that is acquired and never released: the lock of target t stays
\* held once an activation has taken it.
HeldNeverReleased(t, l) ==
    \E g \in Frames : frame[g].ran /\ frame[g].target = t

\* The lock object l of target t is held: some activation is inside
\* "with self.locks[_target]" on it.
Held(t, l) ==
    \E g \in Frames : frame[g].pc = "run" /\ frame[g].target = t /\ frame[g].lk = l

\* exec_uni returns what its _exec returns, and raises what it raises.
OpAfter(f, pc) ==
    IF op[f[1]].kind = "uni" THEN [op EXCEPT ![f[1]].pc = pc] ELSE op

\* A lookup keyed by the built command line: a request with elevation does
\* not find what was stored for the plain command.
LookupBuiltKey(f) ==
    /\ frame[f].pc = "lookup"
    /\ frame' = [frame EXCEPT ![f].pc =
                    IF InCache(frame[f].target, frame[f].cmd) /\ ~frame[f].su
                    THEN "hit" ELSE "chklock"]
    /\ UNCHANGED <<rexVars, addrs, built, locks, cache, connected, op, calls>>

\* Lines 176-177, the test: a hit goes on to read the entry, a miss builds the
\* command line (line 180, locals only) and goes on to the lock map.
Lookup(f) ==
    /\ frame[f].pc = "lookup"
    /\ frame' = [frame EXCEPT ![f].pc =
                    IF InCache(frame[f].target, frame[f].cmd) THEN "hit"
                    ELSE "chklock"]
    /\ UNCHANGED <<rexVars, addrs, built, locks, cache, connected, op, calls>>

\* A cache read made inside the target's lock: it waits while an execution
\* on the target holds it.
HitReturnLocked(f) ==
    /\ frame[f].pc = "hit"
    /\ ~\E g \in Frames : frame[g].pc = "run" /\ frame[g].target = frame[f].target
    /\ IF InCache(frame[f].target, frame[f].cmd)
       THEN /\ frame' = [frame EXCEPT ![f].pc = "done", ![f].su = FALSE,
                            ![f].rsp = cache[frame[f].target].d[frame[f].cmd]]
            /\ op' = OpAfter(f, "returned")
       ELSE /\ frame' = [frame EXCEPT ![f].pc = "raised", ![f].su = FALSE]
            /\ op' = OpAfter(f, "raised")
    /\ UNCHANGED <<rexVars, addrs, built, locks, cache, connected, calls>>

\* Line 177, "return self.cache[_target][_cmd]": KeyError when the dictionary
\* of the target was replaced since the test.
HitReturn(f) ==
    /\ frame[f].pc = "hit"
    /\ IF InCache(frame[f].target, frame[f].cmd)
       THEN /\ frame' = [frame EXCEPT ![f].pc = "done", ![f].su = FALSE,
                            ![f].rsp = cache[frame[f].target].d[frame[f].cmd]]
            /\ op' = OpAfter(f, "returned")
       ELSE /\ frame' = [frame EXCEPT ![f].pc = "raised", ![f].su = FALSE]
            /\ op' = OpAfter(f, "raised")
    /\ UNCHANGED <<rexVars, addrs, built, locks, cache, connected, calls>>

\* Line 183: "if _target not in self.locks".
ChkLock(f) ==
    /\ frame[f].pc = "chklock"
    /\ frame' = [frame EXCEPT ![f].pc =
                    IF locks[frame[f].target] = NoLock THEN "mklock" ELSE "getlock"]
    /\ UNCHANGED <<rexVars, addrs, built, locks, cache, connected, op, calls>>

\* Line 184: "self.locks[_target] = Lock()", a new lock object, named after
\* the activation that made it.
MkLock(f) ==
    /\ frame[f].pc = "mklock"
    /\ locks' = [locks EXCEPT ![frame[f].target] = f]
    /\ frame' = [frame EXCEPT ![f].pc = "getlock"]
    /\ UNCHANGED <<rexVars, addrs, built, cache, connected, op, calls>>

\* Line 187: "self.locks[_target]" is read.
GetLock(f) ==
    /\ frame[f].pc = "getlock"
    /\ frame' = [frame EXCEPT ![f].pc = "acquire", ![f].lk = locks[frame[f].target]]
    /\ UNCHANGED <<rexVars, addrs, built, locks, cache, connected, op, calls>>

\* Lines 187-188: the lock object read is acquired once it is free, and
\* exec_cmd(cmd) starts.
Acquire(f) ==
    /\ frame[f].pc = "acquire"
    /\ ~Held(frame[f].target, frame[f].lk)
    /\ frame' = [frame EXCEPT ![f].pc = "run", ![f].ran = TRUE]
    /\ UNCHANGED <<rexVars, addrs, built, locks, cache, connected, op, calls>>

\* Line 188: exec_cmd returns its output; the with block releases the lock.
RunOk(f, out) ==
    /\ frame[f].pc = "run"
    /\ frame' = [frame EXCEPT ![f].pc = "chkcache", ![f].rsp = out,
                                ![f].lk = NoLock, ![f].su = FALSE]
    /\ UNCHANGED <<rexVars, addrs, built, locks, cache, connected, op, calls>>

\* A failure that is memoized: the handler stores an error response for
\* (target, command) before the exception leaves _exec.
RunFailCached(f) ==
    /\ frame[f].pc = "run"
    /\ frame' = [frame EXCEPT ![f].pc = "raised", ![f].lk = NoLock, ![f].su = FALSE]
    /\ cache' = [cache EXCEPT ![frame[f].target] =
                    [present |-> TRUE, d |-> [@.d EXCEPT ![frame[f].cmd] = <<"x">>]]]
    /\ op' = OpAfter(f, "raised")
    /\ UNCHANGED <<rexVars, addrs, built, locks, connected, calls>>

\* Line 188: exec_cmd raises; the with block releases the lock and the
\* exception leaves _exec.
RunFail(f) ==
    /\ frame[f].pc = "run"
    /\ frame' = [frame EXCEPT ![f].pc = "raised", ![f].lk = NoLock, ![f].su = FALSE]
    /\ op' = OpAfter(f, "raised")
    /\ UNCHANGED <<rexVars, addrs, built, locks, cache, connected, calls>>

\* Line 191: "if _target not in self.cache".
ChkCache(f) ==
    /\ frame[f].pc = "chkcache"
    /\ frame' = [frame EXCEPT ![f].pc =
                    IF cache[frame[f].target].present THEN "store" ELSE "mkcache"]
    /\ UNCHANGED <<rexVars, addrs, built, locks, cache, connected, op, calls>>

\* Line 192: "self.cache[_target] = {}".
MkCache(f) ==
    /\ frame[f].pc = "mkcache"
    /\ cache' = [cache EXCEPT ![frame[f].target] = [present |-> TRUE, d |-> EmptyDict]]
    /\ frame' = [frame EXCEPT ![f].pc = "store"]
    /\ UNCHANGED <<rexVars, addrs, built, locks, connected, op, calls>>

\* Lines 193-195: "self.cache[_target][_cmd] = rsp" and "return rsp".
Store(f) ==
    /\ frame[f].pc = "store"
    /\ cache' = [cache EXCEPT ![frame[f].target].d[frame[f].cmd] = frame[f].rsp]
    /\ frame' = [frame EXCEPT ![f].pc = "done"]
    /\ op' = OpAfter(f, "returned")
    /\ UNCHANGED <<rexVars, addrs, built, locks, connected, calls>>

\* --------------------------------------------------------------- exec_uni
Idle(c) == op[c].pc \in {"idle", "returned", "raised"}

\* The activations of caller c, all idle but those given.
Activations(c, started) ==
    [f \in Frames |->
        IF f[1] # c THEN frame[f]
        ELSE IF f[2] \in DOMAIN started THEN started[f[2]]
        ELSE IdleFrame]

\* exec_uni(_cmd, _target, _su): one _exec on the caller's own thread.
ExecUni(c, cmd, t, su) ==
    /\ constructed = "ok"
    /\ Idle(c)
    /\ calls + 1 <= MaxCalls
    /\ calls' = calls + 1
    /\ op' = [op EXCEPT ![c] = [IdleOp EXCEPT !.kind = "uni", !.pc = "running"]]
    /\ frame' = Activations(c, <<NewFrame(cmd, t, su)>>)
    /\ UNCHANGED <<rexVars, addrs, built, locks, cache, connected>>

\* ------------------------------------------------- exec_multi, exec_broad
\* The lists of (command, target) pairs a caller may hand to exec_multi.
PairLists ==
    UNION { [1..n -> [cmd : Cmds, target : Range(targets)]] : n \in 0..MaxBatch }

Finished(f) == frame[f].pc \in {"done", "raised"}

\* The future of task i of caller c's batch, with the attributes lines 136-137
\* (157-158) set on it.
Future(c, i) ==
    [id |-> i, cmd |-> op[c].futures[i].cmd, target |-> op[c].futures[i].target,
     finished |-> Finished(<<c, i>>), raised |-> frame[<<c, i>>].pc = "raised",
     rsp |-> frame[<<c, i>>].rsp]

\* wait(futures, return_when=FIRST_COMPLETED): back at the first finished task.
WaitFirst(c) == \E i \in 1..Len(op[c].futures) : Finished(<<c, i>>)

\* concurrent.futures.wait(futures): blocks until every future has finished,
\* then returns the finished and the unfinished ones.
WaitAll(c) == \A i \in 1..Len(op[c].futures) : Finished(<<c, i>>)

WaitDone(c) ==
    { Future(c, i) : i \in { j \in 1..Len(op[c].futures) : Finished(<<c, j>>) } }

WaitUndone(c) ==
    { Future(c, i) : i \in { j \in 1..Len(op[c].futures) : ~Finished(<<c, j>>) } }

\* Lines 132-138 and 153-159: a pool of len(pairs) workers (ValueError for
\* none) and one submitted _exec per pair; a submitted task that has not
\* taken its first step is a task not yet picked up by its worker.
Submit(c, kind, pairs, su) ==
    /\ constructed = "ok"
    /\ Idle(c)
    /\ calls + Len(pairs) <= MaxCalls
    /\ calls' = calls + Len(pairs)
    /\ op' = [op EXCEPT ![c] = [IdleOp EXCEPT !.kind = kind,
                    !.pc = IF Len(pairs) = 0 THEN "raised" ELSE "waiting",
                    !.futures = pairs]]
    /\ frame' = Activations(c, [i \in 1..Len(pairs) |->
                                 NewFrame(pairs[i].cmd, pairs[i].target, su)])
    /\ UNCHANGED <<rexVars, addrs, built, locks, cache, connected>>

\* exec_multi(_cmd_targets, _su)
ExecMulti(c, pairs, su) == Submit(c, "multi", pairs, su)

\* exec_broad that does not hand _su on to its tasks.
ExecBroadNoSu(c, cmd, su) ==
    Submit(c, "broad", [i \in 1..Len(targets) |-> [cmd |-> cmd, target |-> targets[i]]], FALSE)

\* exec_broad(_cmd, _su): one task per entry of self.targets.
ExecBroad(c, cmd, su) ==
    Submit(c, "broad", [i \in 1..Len(targets) |-> [cmd |-> cmd, target |-> targets[i]]], su)

\* Lines 139-142 and 160-163: wait returns, "assert not undone", return done.
WaitReturn(c) ==
    /\ op[c].pc = "waiting"
    /\ WaitAll(c)
    /\ op' = [op EXCEPT ![c].pc = IF WaitUndone(c) = {} THEN "returned" ELSE "raised"]
    /\ UNCHANGED <<rexVars, addrs, built, locks, cache, connected, frame, calls>>

\* -------------------------------------------------------- check_connection
\* check_connection without the test of line 69: it probes on every call.
CheckConnectionAlways(c) ==
    /\ constructed = "ok"
    /\ Idle(c)
    /\ Len(targets) > 0
    /\ calls + 1 <= MaxCalls
    /\ calls' = calls + 1
    /\ op' = [op EXCEPT ![c] = [IdleOp EXCEPT !.kind = "check",
                                              !.pc = "probing", !.i = 1]]
    /\ frame' = Activations(c, <<NewFrame("pwd", targets[1], TRUE)>>)
    /\ UNCHANGED <<rexVars, addrs, built, locks, cache, connected>>

\* Lines 69-75: nothing is done once self.connected is set; otherwise the
\* first target is probed with exec_uni('pwd', target, True).
CheckConnection(c) ==
    /\ constructed = "ok"
    /\ Idle(c)
    /\ IF connected # "None" \/ Len(targets) = 0
       THEN /\ op' = [op EXCEPT ![c] = [IdleOp EXCEPT !.kind = "check",
                                                     !.pc = "returned"]]
            /\ frame' = Activations(c, <<>>)
            /\ UNCHANGED calls
       ELSE /\ calls + 1 <= MaxCalls
            /\ calls' = calls + 1
            /\ op' = [op EXCEPT ![c] = [IdleOp EXCEPT !.kind = "check",
                                                     !.pc = "probing", !.i = 1]]
            /\ frame' = Activations(c, <<NewFrame("pwd", targets[1], TRUE)>>)
    /\ UNCHANGED <<rexVars, addrs, built, locks, cache, connected>>

\* What the loop of check_connection has seen of target i's probe.
Probe(c) == [target |-> targets[op[c].i], ok |-> frame[<<c, 1>>].pc = "done"]

\* A loop without the try/except of lines 74-80 around the probe: the first
\* failed probe ends check_connection with the exception.
ProbeResultNoCatch(c) ==
    /\ op[c].pc = "probing"
    /\ Finished(<<c, 1>>)
    /\ IF frame[<<c, 1>>].pc = "raised"
       THEN /\ op' = [op EXCEPT ![c].pc = "raised"]
            /\ UNCHANGED connected
       ELSE /\ connected' = "True"
            /\ op' = [op EXCEPT ![c].probes = Append(@, Probe(c)),
                        ![c].pc = IF op[c].i < Len(targets) THEN "next" ELSE "returned"]
    /\ UNCHANGED <<rexVars, addrs, built, locks, cache, frame, calls>>

\* Lines 76-80: the probe returned ("self.connected = True") or raised
\* ("self.connected = False"); the call returns after the last target.
ProbeResult(c) ==
    /\ op[c].pc = "probing"
    /\ Finished(<<c, 1>>)
    /\ connected' = IF frame[<<c, 1>>].pc = "done" THEN "True" ELSE "False"
    /\ op' = [op EXCEPT ![c].probes = Append(@, Probe(c)),
                        ![c].pc = IF op[c].i < Len(targets) THEN "next" ELSE "returned"]
    /\ UNCHANGED <<rexVars, addrs, built, locks, cache, frame, calls>>

\* Lines 73-75: the loop goes on to the next target and probes it.
ProbeNext(c) ==
    /\ op[c].pc = "next"
    /\ calls + 1 <= MaxCalls
    /\ calls' = calls + 1
    /\ op' = [op EXCEPT ![c].pc = "probing", ![c].i = @ + 1]
    /\ frame' = Activations(c, <<NewFrame("pwd", targets[op[c].i + 1], TRUE)>>)
    /\ UNCHANGED <<rexVars, addrs, built, locks, cache, connected>>

\* ---------------------------------------------------------------- get_addrs
\* The targets self.addrs has an entry for.
AddrKeys == { t \in DOMAIN addrs : addrs[t] # None }

\* Lines 98-99 and 101: "if not self.addrs" starts exec_broad('hostname -I');
\* a mapping that is already set is returned as it is.
GetAddrs(c) ==
    IF AddrKeys = {}
    THEN ExecBroad(c, "hostname -I", FALSE)
    ELSE /\ constructed = "ok"
         /\ Idle(c)
         /\ op' = [op EXCEPT ![c] = [IdleOp EXCEPT !.kind = "addrs",
                                                   !.pc = "returned"]]
         /\ frame' = Activations(c, <<>>)
         /\ UNCHANGED <<rexVars, addrs, built, locks, cache, connected, calls>>

\* The mappings the dictionary comprehension of line 99 can build from the
\* futures in done: one key per future.target, the value taken from the future
\* of that target the iteration of the set visits last.
AddrMaps(done) ==
    { m \in [Range(targets) -> { FirstToken(fu.rsp) : fu \in done } \cup {None}] :
        \A t \in Range(targets) :
            IF \E fu \in done : fu.target = t
            THEN \E fu \in done : fu.target = t /\ m[t] = FirstToken(fu.rsp)
            ELSE m[t] = None }

\* Lines 160-163 and 99, 101: exec_broad returns its futures to get_addrs;
\* future.result() raises what the task raised and "split()[0]" raises
\* IndexError for a blank response; otherwise self.addrs is set and returned.
AddrsReturn(c) ==
    /\ op[c].kind = "broad"
    /\ op[c].pc = "waiting"
    /\ WaitAll(c)
    /\ IF \/ WaitUndone(c) # {}
          \/ \E fu \in WaitDone(c) : fu.raised \/ SplitWs(fu.rsp) = <<>>
       THEN /\ op' = [op EXCEPT ![c].kind = "addrs", ![c].pc = "raised"]
            /\ UNCHANGED addrs
       ELSE /\ op' = [op EXCEPT ![c].kind = "addrs", ![c].pc = "returned"]
            /\ addrs' \in AddrMaps(WaitDone(c))
    /\ UNCHANGED <<rexVars, built, locks, cache, connected, frame, calls>>

\* ------------------------------------------------------- the specification
\* The executor right after RemoteExecutor(MainConfig) (lines 47-50).
Init ==
    /\ config = MainConfig
    /\ constructed = Constructor(MainConfig).status
    /\ mode = Constructor(MainConfig).mode
    /\ targets = Constructor(MainConfig).targets
    /\ ssh_user = Constructor(MainConfig).ssh_user
    /\ ssh_key = Constructor(MainConfig).ssh_key
    /\ k8s_ns = Constructor(MainConfig).k8s_ns
    /\ locks = [t \in Range(Constructor(MainConfig).targets) |-> NoLock]
    /\ cache = [t \in Range(Constructor(MainConfig).targets) |->
                    [present |-> FALSE, d |-> EmptyDict]]
    /\ connected = "None"
    /\ addrs = [t \in Range(Constructor(MainConfig).targets) |-> None]
    /\ built = NoBuilt
    /\ frame = [f \in Frames |-> IdleFrame]
    /\ op = [c \in Callers |-> IdleOp]
    /\ calls = 0

Next ==
    \/ \E c \in Callers, cmd \in Cmds, t \in Range(targets), su \in BOOLEAN :
            ExecUni(c, cmd, t, su)
    \/ \E c \in Callers, pairs \in PairLists, su \in BOOLEAN : ExecMulti(c, pairs, su)
    \/ \E c \in Callers, cmd \in Cmds, su \in BOOLEAN : ExecBroad(c, cmd, su)
    \/ \E c \in Callers : WaitReturn(c)
    \/ \E c \in Callers : CheckConnection(c)
    \/ \E c \in Callers : ProbeResult(c)
    \/ \E c \in Callers : ProbeNext(c)
    \/ \E f \in Frames : Lookup(f)
    \/ \E f \in Frames : HitReturn(f)
    \/ \E f \in Frames : ChkLock(f)
    \/ \E f \in Frames : MkLock(f)
    \/ \E f \in Frames : GetLock(f)
    \/ \E f \in Frames : Acquire(f)
    \/ \E f \in Frames, out \in Outputs : RunOk(f, out)
    \/ \E f \in Frames : RunFail(f)
    \/ \E f \in Frames : ChkCache(f)
    \/ \E f \in Frames : MkCache(f)
    \/ \E f \in Frames : Store(f)

Spec == Init /\ [][Next]_vars

\* ------------------------------------------------------------- scheduling
\* The next step of activation f, whatever it is; the end of exec_cmd is one
\* of them.
FrameStep(f) ==
    \/ Lookup(f) \/ HitReturn(f)
    \/ ChkLock(f) \/ MkLock(f) \/ GetLock(f) \/ Acquire(f)
    \/ (\E out \in Outputs : RunOk(f, out)) \/ RunFail(f)
    \/ ChkCache(f) \/ MkCache(f) \/ Store(f)

\* Every thread that can run gets to run, every exec_cmd call ends, and a
\* caller blocked in wait() wakes up once wait() can return.
Fairness ==
    /\ \A f \in Frames : WF_vars(FrameStep(f))
    /\ \A c \in Callers : WF_vars(WaitReturn(c))

SpecLive == Init /\ [][Next]_vars /\ Fairness

\* ------------------------------------------------------------ construction
\* Before RemoteExecutor(_config): any configuration may be handed in.
InitCtor ==
    /\ config \in Configs
    /\ constructed = "new"
    /\ mode = "none"
    /\ targets = <<>>
    /\ ssh_user = None
    /\ ssh_key = None
    /\ k8s_ns = None
    /\ locks = <<>>
    /\ cache = <<>>
    /\ connected = "None"
    /\ addrs = <<>>
    /\ built = NoBuilt
    /\ frame = [f \in Frames |-> IdleFrame]
    /\ op = [c \in Callers |-> IdleOp]
    /\ calls = 0

\* RemoteExecutor(_config), lines 25-50.
Construct ==
    /\ constructed = "new"
    /\ constructed' = Constructor(config).status
    /\ mode' = Constructor(config).mode
    /\ targets' = Constructor(config).targets
    /\ ssh_user' = Constructor(config).ssh_user
    /\ ssh_key' = Constructor(config).ssh_key
    /\ k8s_ns' = Constructor(config).k8s_ns
    /\ locks' = [t \in Range(Constructor(config).targets) |-> NoLock]
    /\ cache' = [t \in Range(Constructor(config).targets) |->
                    [present |-> FALSE, d |-> EmptyDict]]
    /\ addrs' = [t \in Range(Constructor(config).targets) |-> None]
    /\ connected' = "None"
    /\ UNCHANGED <<config, built, frame, op, calls>>

NextCtor == Construct

SpecCtor == InitCtor /\ [][NextCtor]_vars

\* Construction, then calls of _build_cmd with any target, command and flag.
NextBuild ==
    \/ Construct
    \/ \E t \in Range(targets), cmd \in Cmds, su \in BOOLEAN : BuildCmdCall(t, cmd, su)

SpecBuild == InitCtor /\ [][NextBuild]_vars

\* ------------------------------------------------------- sequential callers
\* No caller is inside an operation.
Quiet == \A c \in Callers : Idle(c)

\* Callers that use exec_uni and check_connection one after the other: an
\* operation starts only when no other is running.
NextSeq ==
    \/ \E c \in Callers, cmd \in Cmds, t \in Range(targets), su \in BOOLEAN :
            Quiet /\ ExecUni(c, cmd, t, su)
    \/ \E c \in Callers : Quiet /\ CheckConnection(c)
    \/ \E c \in Callers : ProbeResult(c)
    \/ \E c \in Callers : ProbeNext(c)
    \/ \E f \in Frames : Lookup(f)
    \/ \E f \in Frames : HitReturn(f)
    \/ \E f \in Frames : ChkLock(f)
    \/ \E f \in Frames : MkLock(f)
    \/ \E f \in Frames : GetLock(f)
    \/ \E f \in Frames : Acquire(f)
    \/ \E f \in Frames, out \in Outputs : RunOk(f, out)
    \/ \E f \in Frames : RunFail(f)
    \/ \E f \in Frames : ChkCache(f)
    \/ \E f \in Frames : MkCache(f)
    \/ \E f \in Frames : Store(f)

SpecSeq == Init /\ [][NextSeq]_vars

\* ------------------------------------------------- address discovery alone
\* The executor right after RemoteExecutor(cfg) (lines 25-50).
InitOf(cfg) ==
    /\ config = cfg
    /\ constructed = Constructor(cfg).status
    /\ mode = Constructor(cfg).mode
    /\ targets = Constructor(cfg).targets
    /\ ssh_user = Constructor(cfg).ssh_user
    /\ ssh_key = Constructor(cfg).ssh_key
    /\ k8s_ns = Constructor(cfg).k8s_ns
    /\ locks = [t \in Range(Constructor(cfg).targets) |-> NoLock]
    /\ cache = [t \in Range(Constructor(cfg).targets) |->
                    [present |-> FALSE, d |-> EmptyDict]]
    /\ connected = "None"
    /\ addrs = [t \in Range(Constructor(cfg).targets) |-> None]
    /\ built = NoBuilt
    /\ frame = [f \in Frames |-> IdleFrame]
    /\ op = [c \in Callers |-> IdleOp]
    /\ calls = 0

\* Host lists of two entries: two hosts, and one host listed twice.
AddrHosts == { <<"a", ",", "b">>, <<" ", "a", ",", "a">> }

\* What "hostname -I" may print: one address, several, with leading
\* whitespace, or nothing but whitespace.
Responses == Outputs \cup { <<" ", "y">>, <<" ">> }

InitAddrs == \E h \in AddrHosts : InitOf([MainConfig EXCEPT !["ssh"].hosts = h])

\* Callers that use get_addrs only.
NextAddrs ==
    \/ \E c \in Callers : GetAddrs(c)
    \/ \E c \in Callers : AddrsReturn(c)
    \/ \E f \in Frames : Lookup(f)
    \/ \E f \in Frames : HitReturn(f)
    \/ \E f \in Frames : ChkLock(f)
    \/ \E f \in Frames : MkLock(f)
    \/ \E f \in Frames : GetLock(f)
    \/ \E f \in Frames : Acquire(f)
    \/ \E f \in Frames, out \in Responses : RunOk(f, out)
    \/ \E f \in Frames : RunFail(f)
    \/ \E f \in Frames : ChkCache(f)
    \/ \E f \in Frames : MkCache(f)
    \/ \E f \in Frames : Store(f)

SpecAddrs == InitAddrs /\ [][NextAddrs]_vars

\* ------------------------------------------- sequential callers, both flags
\* The _su flag caller c passes: every second caller asks for elevation.
Elevate(c) == c % 2 = 0

\* Callers that use exec_uni one after the other, each with its own _su.
NextKey ==
    \/ \E c \in Callers, cmd \in Cmds, t \in Range(targets) :
            Quiet /\ ExecUni(c, cmd, t, Elevate(c))
    \/ \E f \in Frames : Lookup(f)
    \/ \E f \in Frames : HitReturn(f)
    \/ \E f \in Frames : ChkLock(f)
    \/ \E f \in Frames : MkLock(f)
    \/ \E f \in Frames : GetLock(f)
    \/ \E f \in Frames : Acquire(f)
    \/ \E f \in Frames, out \in Outputs : RunOk(f, out)
    \/ \E f \in Frames : RunFail(f)
    \/ \E f \in Frames : ChkCache(f)
    \/ \E f \in Frames : MkCache(f)
    \/ \E f \in Frames : Store(f)

SpecKey == Init /\ [][NextKey]_vars

\* ------------------------------------------------- a result already cached
\* The executor after a first exec_uni(cmd, targets[1]) has returned out: the
\* target has its lock and its cache entry; the finished activation is
\* dropped and the calls are counted from here.
InitHit ==
    \E cmd \in Cmds, out \in Outputs :
        /\ config = MainConfig
        /\ constructed = Constructor(MainConfig).status
        /\ mode = Constructor(MainConfig).mode
        /\ targets = Constructor(MainConfig).targets
        /\ ssh_user = Constructor(MainConfig).ssh_user
        /\ ssh_key = Constructor(MainConfig).ssh_key
        /\ k8s_ns = Constructor(MainConfig).k8s_ns
        /\ locks = [t \in Range(Constructor(MainConfig).targets) |->
                        IF t = Constructor(MainConfig).targets[1]
                        THEN <<1, 1>> ELSE NoLock]
        /\ cache = [t \in Range(Constructor(MainConfig).targets) |->
                        IF t = Constructor(MainConfig).targets[1]
                        THEN [present |-> TRUE, d |-> [EmptyDict EXCEPT ![cmd] = out]]
                        ELSE [present |-> FALSE, d |-> EmptyDict]]
        /\ connected = "None"
        /\ addrs = [t \in Range(Constructor(MainConfig).targets) |-> None]
        /\ built = NoBuilt
        /\ frame = [f \in Frames |-> IdleFrame]
        /\ op = [c \in Callers |-> IdleOp]
        /\ calls = 0

\* Concurrent callers that use exec_uni only.
NextHit ==
    \/ \E c \in Callers, cmd \in Cmds, t \in Range(targets), su \in BOOLEAN :
            ExecUni(c, cmd, t, su)
    \/ \E f \in Frames : Lookup(f)
    \/ \E f \in Frames : HitReturn(f)
    \/ \E f \in Frames : ChkLock(f)
    \/ \E f \in Frames : MkLock(f)
    \/ \E f \in Frames : GetLock(f)
    \/ \E f \in Frames : Acquire(f)
    \/ \E f \in Frames, out \in Outputs : RunOk(f, out)
    \/ \E f \in Frames : RunFail(f)
    \/ \E f \in Frames : ChkCache(f)
    \/ \E f \in Frames : MkCache(f)
    \/ \E f \in Frames : Store(f)

SpecHit == InitHit /\ [][NextHit]_vars

\* ------------------------------------------------------------------ claims
\* The activations whose exec_cmd call on target t is in flight.
InFlight(t) == { f \in Frames : frame[f].pc = "run" /\ frame[f].target = t }

SameKey(f, g) == frame[f].target = frame[g].target /\ frame[f].cmd = frame[g].cmd

\* The activation called exec_cmd and exec_cmd returned.
Executed(f) == frame[f].ran /\ frame[f].pc \in {"chkcache", "mkcache", "store", "done"}

\* The tasks of caller c's batch.
Tasks(c) == 1..Len(op[c].futures)

Batch(c) == op[c].kind \in {"multi", "broad"}

\* C1: for every target, at most one exec_cmd call issued by _exec is in
\* flight at any time, for any interleaving of concurrent callers.
C1_MutualExclusion ==
    \A t \in Range(targets) : Cardinality(InFlight(t)) <= 1

\* C2: two concurrent calls for the same target and command, not yet cached,
\* cause one transport execution only: no two activations for one (target,
\* command) both ran exec_cmd successfully.
C2_SingleExecution ==
    \A f, g \in Frames :
        f # g /\ SameKey(f, g) /\ Executed(f) => ~Executed(g)

\* C3: with callers that run one after the other, once a call for (T, C) has
\* returned a result, a later call for (T, C) goes no further than the cache
\* lookup, never calls exec_cmd, and returns the same result.
C3_SequentialMemo ==
    \A f, g \in Frames :
        f # g /\ frame[f].pc = "done" /\ SameKey(f, g) =>
            /\ frame[g].pc = "done" =>
                    frame[g].rsp = frame[f].rsp /\ ~(frame[f].ran /\ frame[g].ran)
            /\ ~Finished(g) => frame[g].pc \in {"lookup", "hit"}

\* C3 witness: a second call for the same (T, C) has returned from the cache
\* what the first, which ran the command, returned.
C3_Witness ==
    \E f, g \in Frames :
        /\ f # g /\ SameKey(f, g)
        /\ frame[f].pc = "done" /\ frame[f].ran
        /\ frame[g].pc = "done" /\ ~frame[g].ran /\ frame[g].rsp = frame[f].rsp

\* C4: an activation that waits for its target's lock can take it whenever no
\* execution on the same target is in flight, whatever is in flight on the
\* other targets.
C4_DistinctTargetsIndependent ==
    \A f \in Frames :
        frame[f].pc = "acquire" /\ InFlight(frame[f].target) = {} => ENABLED Acquire(f)

\* C4 witness: two tasks of one batch have their executions in flight at once,
\* on two different targets.
C4_Witness ==
    \E c \in Callers : \E i, j \in 1..MaxSlots :
        /\ Batch(c) /\ op[c].pc = "waiting"
        /\ frame[<<c, i>>].pc = "run" /\ frame[<<c, j>>].pc = "run"
        /\ frame[<<c, i>>].target # frame[<<c, j>>].target

\* C5: an exec_multi call over N pairs returns, and returns exactly N finished
\* futures, the i-th holding the outcome of running the i-th pair.
C5_BatchReturnsAll ==
    \A c \in Callers :
        op[c].kind = "multi" /\ Idle(c) =>
            /\ op[c].pc = "returned"
            /\ Cardinality(WaitDone(c)) = Len(op[c].futures)
            /\ \A i \in Tasks(c) :
                    /\ Future(c, i) \in WaitDone(c)
                    /\ frame[<<c, i>>].cmd = op[c].futures[i].cmd
                    /\ frame[<<c, i>>].target = op[c].futures[i].target

\* C6: a batch in which a task has failed does not raise; when it returns
\* every task has finished, and each future holds its own task's outcome.
C6_FailureDoesNotAbort ==
    \A c \in Callers :
        Batch(c) /\ (\E i \in Tasks(c) : frame[<<c, i>>].pc = "raised") =>
            /\ op[c].pc \in {"waiting", "returned"}
            /\ \A i \in Tasks(c) : frame[<<c, i>>].pc # "idle"
            /\ op[c].pc = "returned" =>
                    /\ \A i \in Tasks(c) : Finished(<<c, i>>)
                    /\ WaitDone(c) = { Future(c, i) : i \in Tasks(c) }

\* C6 witness: a batch has returned with one task failed and another that ran
\* its command to the end.
C6_Witness ==
    \E c \in Callers : \E i, j \in 1..MaxSlots :
        /\ Batch(c) /\ op[c].pc = "returned"
        /\ i \in Tasks(c) /\ j \in Tasks(c)
        /\ frame[<<c, i>>].pc = "raised"
        /\ frame[<<c, j>>].pc = "done" /\ frame[<<c, j>>].ran

\* C7: the constructor succeeds exactly when the configuration holds one
\* backend section, and fails for none and for more than one.
C7_ExactlyOneSection ==
    constructed # "new" =>
        (constructed = "ok" <=> Cardinality({ s \in Sections : config[s].present }) = 1)

\* C8: when check_connection has gone through its probes, self.connected is
\* False if any probe failed and True if every probe succeeded.
C8_UnhealthyIfAnyFailed ==
    \A c \in Callers :
        op[c].kind = "check" /\ op[c].pc = "returned" /\ op[c].probes # <<>> =>
            (connected = "False" <=> \E i \in 1..Len(op[c].probes) : ~op[c].probes[i].ok)

\* C9: check_connection never raises; it probes the targets one at a time in
\* the order of the target list, goes on after a failed probe, and has probed
\* every target when it returns.
C9_ProbesAllTargets ==
    \A c \in Callers :
        op[c].kind = "check" =>
            /\ op[c].pc \in {"probing", "next", "returned"}
            /\ \A i \in 1..Len(op[c].probes) : op[c].probes[i].target = targets[i]
            /\ \A j \in 2..MaxSlots : frame[<<c, j>>].pc = "idle"
            /\ op[c].pc = "probing" =>
                    /\ Len(op[c].probes) = op[c].i - 1
                    /\ frame[<<c, 1>>].target = targets[op[c].i]
                    /\ frame[<<c, 1>>].cmd = "pwd"
            /\ op[c].pc = "next" =>
                    Len(op[c].probes) = op[c].i /\ op[c].i < Len(targets)
            /\ op[c].pc = "returned" /\ op[c].probes # <<>> =>
                    Len(op[c].probes) = Len(targets)

\* C9 witness: check_connection has returned after probing both targets, the
\* first of which failed.
C9_Witness ==
    \E c \in Callers :
        /\ op[c].kind = "check" /\ op[c].pc = "returned"
        /\ Len(op[c].probes) = Len(targets) /\ Len(targets) > 1
        /\ ~op[c].probes[1].ok

\* Caller c enters check_connection in this step.
CheckCalled(c) ==
    /\ Idle(c)
    /\ op'[c] # op[c]
    /\ op'[c].kind = "check"

\* C10: a check_connection call made when self.connected is already set
\* returns at once: it starts no probe and leaves self.connected, the cache
\* and the lock map as they are.
C10_LaterCheckIsNoOp ==
    [][\A c \in Callers :
          connected # "None" /\ CheckCalled(c) =>
              /\ op'[c].pc = "returned"
              /\ \A i \in 1..MaxSlots : frame'[<<c, i>>].pc = "idle"
              /\ calls' = calls
              /\ connected' = connected /\ cache' = cache /\ locks' = locks]_vars

\* C10 witness: a check_connection call has returned without a probe, the
\* connectivity state being set.
C10_Witness ==
    \E c \in Callers :
        /\ op[c].kind = "check" /\ op[c].pc = "returned" /\ op[c].probes = <<>>
        /\ connected # "None"

\* tok is the first whitespace-delimited token of s: s is blanks, then tok,
\* then a blank or the end, and tok is not empty and holds no blank.
IsFirstToken(tok, s) ==
    /\ tok # <<>>
    /\ \A k \in 1..Len(tok) : tok[k] # " "
    /\ \E i \in 1..Len(s) :
            /\ \A k \in 1..(i - 1) : s[k] = " "
            /\ i + Len(tok) - 1 <= Len(s)
            /\ SubSeq(s, i, i + Len(tok) - 1) = tok
            /\ i + Len(tok) <= Len(s) => s[i + Len(tok)] = " "

\* C11: the mapping get_addrs returns has the configured targets as its key
\* set, and when it comes from a broadcast the value of each target is the
\* first whitespace-delimited token of a response of that target to
\* 'hostname -I'.
C11_AddrsOfTargets ==
    \A c \in Callers :
        op[c].kind = "addrs" /\ op[c].pc = "returned" =>
            /\ AddrKeys = Range(targets)
            /\ op[c].futures # <<>> =>
                    \A t \in Range(targets) : \E i \in Tasks(c) :
                        /\ op[c].futures[i].target = t
                        /\ op[c].futures[i].cmd = "hostname -I"
                        /\ frame[<<c, i>>].pc = "done"
                        /\ frame[<<c, i>>].cmd = "hostname -I"
                        /\ frame[<<c, i>>].target = t
                        /\ IsFirstToken(addrs[t], frame[<<c, i>>].rsp)

\* C11 witness: get_addrs has returned a mapping built from a broadcast in
\* which a response held more than its first token.
C11_Witness ==
    \E c \in Callers : \E i \in 1..MaxSlots :
        /\ op[c].kind = "addrs" /\ op[c].pc = "returned"
        /\ i \in Tasks(c)
        /\ frame[<<c, i>>].pc = "done"
        /\ Len(frame[<<c, i>>].rsp) > Len(addrs[frame[<<c, i>>].target])

\* The list [(cmd, t) for every configured target t].
BroadPairs(cmd) == [i \in 1..Len(targets) |-> [cmd |-> cmd, target |-> targets[i]]]

\* Two values of op that differ at most in the name of caller c's operation.
SameButKind(o1, o2, c) ==
    [o1 EXCEPT ![c].kind = "batch"] = [o2 EXCEPT ![c].kind = "batch"]

C13_CacheWriteOnce ==
    [][\A t \in Range(targets), c \in Cmds :
            InCache(t, c) => cache'[t].present /\ cache'[t].d[c] = cache[t].d[c]]_vars

\* C14: the cache key is (target, command) alone: once a call with one value
\* of the elevate flag has run (T, C) and returned, a call for (T, C) with the
\* other value goes no further than the cache lookup, keeps its own flag
\* until then, never calls exec_cmd, and returns the memoized result.
C14_KeyIgnoresElevate ==
    \A f, g \in Frames :
        /\ Elevate(f[1]) # Elevate(g[1])
        /\ SameKey(f, g)
        /\ frame[f].pc = "done" /\ frame[f].ran
        => /\ frame[g].pc = "done" =>
                    frame[g].rsp = frame[f].rsp /\ ~frame[g].ran
           /\ ~Finished(g) =>
                    /\ frame[g].pc \in {"lookup", "hit"}
                    /\ frame[g].su = Elevate(g[1])
                    /\ ~frame[g].ran

\* C14 witness: a call without elevation has returned from the cache what a
\* call with elevation executed and stored for the same (T, C).
C14_Witness ==
    \E f, g \in Frames :
        /\ Elevate(f[1]) /\ ~Elevate(g[1])
        /\ SameKey(f, g)
        /\ frame[f].pc = "done" /\ frame[f].ran
        /\ frame[g].pc = "done" /\ ~frame[g].ran /\ frame[g].rsp = frame[f].rsp

\* Text part occurs in text line, atom by atom.
Contains(line, part) ==
    \E i \in 1..(Len(line) - Len(part) + 1) :
        SubSeq(line, i, i + Len(part) - 1) = part

EndsWith(line, part) ==
    /\ Len(part) <= Len(line)
    /\ SubSeq(line, Len(line) - Len(part) + 1, Len(line)) = part

\* C15: in mode ssh the built command line is an ssh invocation that disables
\* host-key checking, names the key path when a key is configured, targets
\* user@host when a user is configured and the bare host otherwise, and holds
\* the command in quotes, with "sudo " right before it exactly when elevation
\* is asked for.
C15_SshCommandLine ==
    mode = "ssh" /\ built.line # None =>
        LET line == built.line
            cmd == CmdText(built.cmd)
        IN  /\ Head(line) = "ssh"
            /\ Contains(line, <<"-o", " ", "StrictHostKeyChecking=no", " ">>)
            /\ Truthy(ssh_key) => Contains(line, <<" ", "-i", " ">> \o ssh_key \o <<" ">>)
            /\ IF Truthy(ssh_user)
               THEN Contains(line, <<" ">> \o ssh_user \o <<"@">> \o built.target \o <<" ">>)
               ELSE /\ Contains(line, <<" ">> \o built.target \o <<" ">>)
                    /\ ~Contains(line, <<"@">>)
            /\ IF built.su
               THEN EndsWith(line, <<" ", "-C", " ", "'", "sudo", " ">> \o cmd \o <<"'", " ">>)
               ELSE /\ EndsWith(line, <<" ", "-C", " ", "'">> \o cmd \o <<"'", " ">>)
                    /\ ~Contains(line, <<"sudo">>)

\* C15 witness: a command line was built in mode ssh with a user, a key and
\* elevation for the command pwd.
C15_Witness ==
    /\ mode = "ssh" /\ Truthy(ssh_user) /\ Truthy(ssh_key)
    /\ built.line # None /\ built.su /\ built.cmd = "pwd"

\* C16: in mode k8s the built command line is a kubectl exec of the pod, with
\* the fixed container name and the configured namespace, ending in the
\* command; it is the same with and without elevation.
C16_K8sCommandLine ==
    mode = "k8s" /\ built.line # None =>
        LET line == built.line
            cmd == CmdText(built.cmd)
        IN  /\ SubSeq(line, 1, 4) = <<"kubectl", " ", "exec", " ">>
            /\ Contains(line, <<" ", "exec", " ">> \o built.target \o <<" ">>)
            /\ Contains(line, <<" ", "--container", " ">> \o K8sContainer \o <<" ">>)
            /\ Contains(line, <<" ", "--namespace", " ">> \o k8s_ns \o <<" ">>)
            /\ EndsWith(line, <<" ", "--", " ">> \o cmd)
            /\ ~Contains(line, <<"sudo">>)
            /\ line = BuildCmd(built.target, cmd, ~built.su)

\* C16 witness: a command line was built in mode k8s with elevation asked for.
C16_Witness ==
    mode = "k8s" /\ built.line # None /\ built.su /\ built.cmd = "pwd"

\* C17: a successful execution stores its result before it releases the
\* target's lock: whenever an activation takes T's lock after another one's
\* successful execution of (T, C) has released it, cache[T][C] is present.
C17_StoredBeforeRelease ==
    [][\A f, g \in Frames :
            /\ f # g
            /\ frame[f].pc = "acquire" /\ frame'[f].pc = "run"
            /\ frame[g].target = frame[f].target
            /\ Executed(g)
            => InCache(frame[g].target, frame[g].cmd)]_vars

\* C18: the lock stored for a target is assigned once: no step replaces or
\* removes a lock that the lock map holds.
C18_LockAssignedOnce ==
    [][\A t \in Range(targets) :
            locks[t] # NoLock => locks'[t] = locks[t]]_vars

\* C19: a call that finds its result in the cache never touches the target's
\* lock: it goes from the lookup to the read of the entry, the read can be
\* taken whatever holds the lock, it returns the entry it reads, and the call
\* neither reads, creates nor acquires a lock, nor calls exec_cmd.
C19_HitNeedsNoLock ==
    /\ [](\A f \in Frames :
            frame[f].pc = "hit" =>
                /\ ENABLED HitReturn(f)
                /\ frame[f].lk = NoLock /\ ~frame[f].ran)
    /\ [][\A f \in Frames :
            /\ frame[f].pc = "lookup" /\ frame'[f] # frame[f]
               /\ InCache(frame[f].target, frame[f].cmd)
               => frame'[f].pc = "hit"
            /\ frame[f].pc = "hit" /\ frame'[f] # frame[f]
               => /\ frame'[f].pc \in {"done", "raised"}
                  /\ frame'[f].lk = NoLock /\ ~frame'[f].ran
                  /\ locks' = locks /\ cache' = cache
                  /\ InCache(frame[f].target, frame[f].cmd) =>
                        /\ frame'[f].pc = "done"
                        /\ frame'[f].rsp = cache[frame[f].target].d[frame[f].cmd]]_vars

\* C19 witness: a call has found its result in the cache and is about to
\* return it while another activation's execution on the same target holds
\* the target's lock.
C19_Witness ==
    \E f, g \in Frames :
        /\ frame[f].pc = "hit"
        /\ InCache(frame[f].target, frame[f].cmd)
        /\ frame[g].pc = "run" /\ frame[g].target = frame[f].target
        /\ frame[g].lk = locks[frame[f].target]

\* C20: every exec_multi / exec_broad call that has submitted its tasks
\* returns in the end, whatever the targets of its pairs and whatever other
\* callers do; when it returns every submitted task has finished, and the
\* assertion "not undone" never makes it raise.
C20_BatchCompletes ==
    /\ [](\A c \in Callers :
            Batch(c) /\ op[c].futures # <<>> =>
                /\ op[c].pc \in {"waiting", "returned"}
                /\ op[c].pc = "returned" =>
                        /\ WaitUndone(c) = {}
                        /\ \A i \in Tasks(c) : Finished(<<c, i>>))
    /\ \A c \in Callers :
            (Batch(c) /\ op[c].pc = "waiting") ~> (Batch(c) /\ op[c].pc = "returned")

\* C20 witness: a batch with two tasks on the same target has returned, both
\* tasks having called exec_cmd.
C20_Witness ==
    \E c \in Callers : \E i, j \in 1..MaxSlots :
        /\ Batch(c) /\ op[c].pc = "returned"
        /\ i \in Tasks(c) /\ j \in Tasks(c) /\ i # j
        /\ frame[<<c, i>>].target = frame[<<c, j>>].target
        /\ frame[<<c, i>>].ran /\ frame[<<c, j>>].ran

\* The exec_cmd call of activation f failed.
Failed(f) == frame[f].pc = "raised" /\ frame[f].ran

\* C21: a failed execution changes nothing but its own activation: the step
\* in which exec_cmd fails leaves the cache, the lock map and the rest of the
\* executor as they are, gives the lock back and hands the error to the
\* caller of exec_uni; the failed activation does nothing afterwards, it is
\* only replaced when its caller starts the next call. So a later call on
\* the target can take the lock; the cache is written only by
\* activations whose exec_cmd call returned, so as long as no such execution
\* has stored (T, C) a later call for it misses the cache and cannot return
\* without calling exec_cmd again.
C21_FailureLeavesNoTrace ==
    /\ [](\A f, g \in Frames :
            f # g /\ Failed(f) /\ frame[g].target = frame[f].target =>
                /\ frame[f].lk = NoLock
                /\ frame[g].pc = "acquire" /\ InFlight(frame[g].target) = {}
                        => ENABLED Acquire(g)
                /\ SameKey(f, g) /\ ~InCache(frame[f].target, frame[f].cmd)
                        => frame[g].pc \notin {"hit", "done"})
    /\ [][cache' # cache =>
            \E h \in Frames :
                /\ frame[h].pc \in {"mkcache", "store"} /\ frame[h].ran
                /\ frame'[h].pc # frame[h].pc]_vars
    /\ [][\A f \in Frames :
            /\ frame[f].pc = "run" /\ frame'[f].pc = "raised"
               => /\ cache' = cache /\ locks' = locks
                  /\ connected' = connected /\ addrs' = addrs
                  /\ frame'[f].lk = NoLock
                  /\ \A g \in Frames \ {f} : frame'[g] = frame[g]
                  /\ op[f[1]].kind = "uni" => op'[f[1]].pc = "raised"
                  /\ \A c \in Callers \ {f[1]} : op'[c] = op[c]
            /\ frame[f].pc = "raised" /\ frame'[f] # frame[f]
               => /\ frame'[f].pc \in {"idle", "lookup"}
                  /\ cache' = cache /\ locks' = locks]_vars

\* C21 witness: after a call for (T, C) failed in exec_cmd, a later call for
\* the same (T, C) has executed the command and returned its result.
C21_Witness ==
    \E f, g \in Frames :
        /\ f # g /\ SameKey(f, g)
        /\ Failed(f) /\ op[f[1]].pc = "raised"
        /\ frame[g].pc = "done" /\ frame[g].ran
        /\ InCache(frame[g].target, frame[g].cmd)

====
